---------------------------- MODULE Spec2Model ----------------------------
(***************************************************************************)
(* Daily precipitation GPM (daily_precipitation_gpm.py).                   *)
(*                                                                         *)
(* Two state machines share this module:                                   *)
(*   - the generator GpmDataset.getValuesDatatime (SpecGen), stepped one   *)
(*     yielded window at a time over real calendar dates;                  *)
(*   - a run of the program, run() -> CalculateGpm.init() -> saveCsv()     *)
(*     (Spec): the control thread, the ThreadPool tasks, the output        *)
(*     directory, the two CSV files and the network.                       *)
(* Pixel values are integers in hundredths of a raw unit (getValue rounds  *)
(* to 2 decimals); total_mm is an exact fraction.                          *)
(***************************************************************************)
EXTENDS Integers, Sequences, FiniteSets, TLC

VARIABLES
    \* ---- generator getValuesDatatime
    gen_pc,         \* "off" | "new" | "loop" | "end"
    v_datetime,     \* the generator's argument
    s_dt,           \* its running start datetime
    gen_i,          \* how many iterations of range(IMAGES_DAY) are done
    yielded,        \* the dictionaries yielded so far
    \* ---- the run: inputs
    VSICURL,        \* GpmDataset.VSICURL, the static mode flag
    download_keep,  \* --download_keep
    ini_date,       \* argument ini_date: Date(n), or BadDate
    end_date,       \* argument end_date
    csvRows,        \* the station file: File(rows), or MissingFile
    nImages,        \* windows of a day the run model resolves
    maxRuns,        \* how many times the command line is run
    nScenes,        \* distinct rasters the archive can serve
    \* ---- the run: program state
    runNo,          \* which run of the command line this is
    pc,             \* position of the control thread
    stations,       \* self.stations
    d,              \* loop variable of saveCsv
    c_images,       \* getDatasetSources.c_images
    sources,        \* getDatasetSources.sources (window indexes of day d)
    errors,         \* getDatasetSources.errors
    r,              \* the last result of getDataSet
    stations_total, \* getTotalPrecipitation.stations_total, NoTotal before line 333
    totalError,     \* saveCsv.totalError
    task,           \* per source position: "queued" | "running" | "done"
    results,        \* per source position: Returned(pairs), Raised, or NoResult
    \* ---- the run: environment
    files,          \* output directory: image key -> content
    outFile,        \* primary output: [exists, rows, flushed]
    errFile,        \* error output:   [exists, rows, flushed]
    exitMsg,        \* what init() reported, "ValueError" for the uncaught exception
    \* ---- the run: history
    probes,         \* liveness probes issued (isLive)
    fetched,        \* image keys whose download was attempted in this run
    failures,       \* <<day, window>> whose resolution returned a failure
    resolved,       \* <<day, window>> in the order getDataSet was called
    dayLog,         \* day -> [ok: windows resolved, vals: what each task returned]
    aborted,        \* the day whose processing raised, if any
    removed,        \* image keys removed by the end-of-day cleanup of day d
    prevOut,        \* rows of the primary output of the previous run
    files0          \* the output directory as this run found it

genVars == <<gen_pc, v_datetime, s_dt, gen_i, yielded>>
inVars  == <<VSICURL, download_keep, ini_date, end_date, csvRows, nImages, maxRuns, nScenes>>
runVars == <<runNo, files0, pc, stations, d, c_images, sources, errors, r, stations_total,
             totalError, task, results, files, outFile, errFile, exitMsg, probes,
             fetched, failures, resolved, dayLog, aborted, removed, prevOut>>
vars    == <<genVars, inVars, runVars>>
\* what no step of a run changes
fixed   == <<genVars, inVars>>

-----------------------------------------------------------------------------
(* Bounds of the model *)

\* years the generator is run over: FirstYear .. FirstYear + MaxYears - 1
FirstYear == 2019
MaxYears == 2
\* columns and rows of a raster
RasterXSize == 2
RasterYSize == 1
\* The run is explored in three profiles (see Profiles):
\* several days of few windows,
MaxDays == 2
MaxImages == 1
\* one day of enough windows to saturate the pool,
PoolImages == 5
\* and one day run twice over the same directory.
RerunImages == 2
\* distinct rasters the archive can serve
MaxScene == 2

-----------------------------------------------------------------------------
(* Program constants *)

IMAGES_DAY == 48
iniHourBefore == 12
factor_mm_day == 20
PROCESSES == 4

\* timedelta(minutes=30), timedelta(seconds=1), timedelta(days=1): [days, seconds]
deltaStep == [days |-> 0, seconds |-> 30 * 60]
deltaSecond == [days |-> 0, seconds |-> 1]
deltaDay == [days |-> 1, seconds |-> 0]

-----------------------------------------------------------------------------
(* datetime arithmetic, as datetime.__add__ / __sub__ do it: through the    *)
(* proleptic Gregorian ordinal of the date and the second of the day.      *)

Years == (FirstYear - 1) .. (FirstYear + MaxYears)

IsLeap(y) == (y % 4 = 0 /\ y % 100 # 0) \/ y % 400 = 0

DaysInMonth(y, m) ==
    IF m = 2 THEN (IF IsLeap(y) THEN 29 ELSE 28)
    ELSE IF m \in {4, 6, 9, 11} THEN 30 ELSE 31

DaysInYear(y) == IF IsLeap(y) THEN 366 ELSE 365

RECURSIVE DaysBeforeMonth(_, _)
DaysBeforeMonth(y, m) ==
    IF m = 1 THEN 0 ELSE DaysBeforeMonth(y, m - 1) + DaysInMonth(y, m - 1)

\* days before January 1st of year y
DaysBeforeYear(y) ==
    LET p == y - 1 IN p * 365 + (p \div 4) - (p \div 100) + (p \div 400)

ToOrdinal(y, m, dd) == DaysBeforeYear(y) + DaysBeforeMonth(y, m) + dd

FromOrdinal(n) ==
    LET y == CHOOSE yy \in Years :
                 DaysBeforeYear(yy) < n /\ n <= DaysBeforeYear(yy) + DaysInYear(yy)
        k == n - DaysBeforeYear(y)
        m == CHOOSE mm \in 1..12 :
                 DaysBeforeMonth(y, mm) < k /\ k <= DaysBeforeMonth(y, mm) + DaysInMonth(y, mm)
    IN [year |-> y, month |-> m, day |-> k - DaysBeforeMonth(y, m)]

datetime(y, m, dd, h) ==
    [year |-> y, month |-> m, day |-> dd, hour |-> h, minute |-> 0, second |-> 0]

SecondOfDay(dt) == dt.hour * 3600 + dt.minute * 60 + dt.second

\* dt + sign * td, normalised as timedelta normalises (0 <= seconds < 86400)
DatetimeShift(dt, td, sign) ==
    LET secs == SecondOfDay(dt) + sign * td.seconds
        carry == IF secs < 0 THEN -1 ELSE secs \div 86400
        sod == secs - carry * 86400
        date == FromOrdinal(ToOrdinal(dt.year, dt.month, dt.day) + sign * td.days + carry)
    IN [year |-> date.year, month |-> date.month, day |-> date.day,
        hour |-> sod \div 3600, minute |-> (sod % 3600) \div 60, second |-> sod % 60]

DatetimeAdd(dt, td) == DatetimeShift(dt, td, 1)
DatetimeSub(dt, td) == DatetimeShift(dt, td, -1)

-----------------------------------------------------------------------------
(* GpmDataset.getValuesDatatime, a generator: one action per resumption.    *)

NoDatetime == [year |-> 0, month |-> 0, day |-> 0, hour |-> 0, minute |-> 0, second |-> 0]

\* the dates the generator is called with (EdgeDate keeps every month's first
\* and last days)
GenDates ==
    { datetime(y, m, dd, 0) :
        y \in FirstYear .. (FirstYear + MaxYears - 1), m \in 1..12, dd \in 1..31 }

ValidDate(dt) == dt.day <= DaysInMonth(dt.year, dt.month)

EdgeDate(dt) == ValidDate(dt) /\ (dt.day <= 2 \/ dt.day >= 28)

\* the day before forgotten: the windows start at noon of the target day
FirstStartSameDay(vdt) ==
    datetime(vdt.year, vdt.month, vdt.day, iniHourBefore)

\* line 90-92: previosDay and the first s_dt
FirstStart(vdt) ==
    LET previosDay == DatetimeSub(vdt, deltaDay)
    IN datetime(previosDay.year, previosDay.month, previosDay.day, iniHourBefore)

\* line 94: e_dt
EndOf(sdt) == DatetimeSub(DatetimeAdd(sdt, deltaStep), deltaSecond)

\* line 95-106: the dictionary v
WindowOf(sdt) ==
    LET e_dt == EndOf(sdt)
    IN [year |-> sdt.year, month |-> sdt.month, day |-> sdt.day,
        s_hour |-> sdt.hour, s_minute |-> sdt.minute, s_second |-> sdt.second,
        e_hour |-> e_dt.hour, e_minute |-> e_dt.minute, e_second |-> e_dt.second,
        totalmin |-> sdt.hour * 60 + sdt.minute]

\* the first resumption: lines 90-92
GenStart ==
    /\ gen_pc = "new"
    /\ s_dt' = FirstStart(v_datetime)
    /\ gen_i' = 0
    /\ gen_pc' = "loop"
    /\ UNCHANGED <<v_datetime, yielded>>
    /\ UNCHANGED <<inVars, runVars>>

\* one iteration of the loop, lines 93-108, or its exhaustion
GenNext ==
    /\ gen_pc = "loop"
    /\ IF gen_i < IMAGES_DAY
       THEN /\ yielded' = Append(yielded, WindowOf(s_dt))
            /\ s_dt' = DatetimeAdd(s_dt, deltaStep)
            /\ gen_i' = gen_i + 1
            /\ gen_pc' = "loop"
       ELSE /\ gen_pc' = "end"
            /\ UNCHANGED <<s_dt, gen_i, yielded>>
    /\ UNCHANGED v_datetime
    /\ UNCHANGED <<inVars, runVars>>

GenIdle ==
    /\ gen_pc = "off"
    /\ v_datetime = NoDatetime
    /\ s_dt = NoDatetime
    /\ gen_i = 0
    /\ yielded = <<>>


-----------------------------------------------------------------------------
(* Values of the run *)

\* a date argument: the day number strptime gives, or a text it rejects
Date(n) == [ok |-> TRUE, day |-> n]
BadDate == [ok |-> FALSE, day |-> 0]
\* the station file: absent, or its rows after the header
File(rows) == [exists |-> TRUE, rows |-> rows]
MissingFile == [exists |-> FALSE, rows |-> <<>>]
\* stations_total before line 333
NoTotal == <<>>
\* what a task returned: its pairs, or the exception it raised; nothing yet
Returned(pairs) == [state |-> "returned", pairs |-> pairs]
Raised == [state |-> "raised", pairs |-> <<>>]
NoResult == [state |-> "pending", pairs |-> <<>>]
NoR == [isOk |-> FALSE, message |-> <<<<0, 0>>, "none">>]

Scenes == 1 .. nScenes
Raster(s) == [kind |-> "raster", scene |-> s]
Broken(k) == [kind |-> k, scene |-> 0]
\* what the network does to one call: the host cannot be reached, the transfer
\* stops short, the bytes received are no raster, or a raster arrives
Net == { Broken(k) : k \in {"unreachable", "short", "corrupt"} } \cup { Raster(s) : s \in Scenes }
\* content of a local file that gdal.Open rejects
Unreadable == { Broken(k) : k \in {"short", "corrupt"} }

\* a CSV field: its float() value, or a text float() rejects
Num(n) == [ok |-> TRUE, val |-> n]
NotNum == [ok |-> FALSE, val |-> 0]

RowA == <<"a", Num(0), Num(0)>>
RowB == <<"b", Num(0), Num(1)>>
RowFar == <<"z", Num(0), Num(RasterXSize + 3)>>
RowMalformed == <<"m", NotNum, Num(1)>>

StationFiles ==
    { MissingFile, File(<<RowA, RowB>>), File(<<RowA, RowFar>>),
      File(<<RowA, RowMalformed, RowB>>) }

Profiles ==
    { [days |-> MaxDays, images |-> MaxImages,   runs |-> 1, scenes |-> 1],
      [days |-> 1,       images |-> PoolImages,  runs |-> 1, scenes |-> 1],
      [days |-> 1,       images |-> RerunImages, runs |-> 2, scenes |-> MaxScene] }

\* self.dateIni, self.dateEnd after lines 255 and 260
dateIni == ini_date.day
dateEnd == end_date.day
\* line 351-352
totalDays == dateEnd - dateIni + 1
\* dt of line 358 and labelDate of line 360: the day number
dt == dateIni + d
labelDate == dt
\* the local file of a window of day dt (line 189), also its URL (line 215)
Image(i) == <<dt, i>>

-----------------------------------------------------------------------------
(* DatasetValuePixel *)

\* the raster's pixels: band 1 of scene s
ReadRaster(s, px, py) == 7 * s + 3 * px + py

\* DatasetValuePixel.getValue with the raster's geotransform north-up, unit
\* pixels, origin (0, 0): px = x, py = -y, truncated; a read outside raises
getValue(s, x, y) ==
    LET px == x
        py == 0 - y
    IN IF px \in 0 .. (RasterXSize - 1) /\ py \in 0 .. (RasterYSize - 1)
       THEN <<ReadRaster(s, px, py)>>
       ELSE <<>>

-----------------------------------------------------------------------------
(* GpmDataset.getDS: the result, the directory after the call, whether the *)
(* network was asked. urlretrieve opens the local file before it reads the *)
(* data, and raises ContentTooShortError (a URLError) after the loop when   *)
(* fewer bytes than announced arrived: the truncated file is on disk then. *)

Ok(i) == [isOk |-> TRUE, dataset |-> i]
Fail(i, what) == [isOk |-> FALSE, message |-> <<Image(i), what>>]

Remove(fs, key) == [k \in (DOMAIN fs) \ {key} |-> fs[k]]
Store(fs, key, c) == [k \in (DOMAIN fs) \cup {key} |-> IF k = key THEN c ELSE fs[k]]

\* the existence test of line 191 dropped: every window is fetched again
_getDS_DownloadAlways(fs, i, net) ==
    LET image == Image(i)
    IN IF net.kind = "unreachable"
       THEN [r |-> Fail(i, "reason"), files |-> fs, fetch |-> TRUE]
       ELSE IF net.kind = "short"
       THEN [r |-> Fail(i, "reason"), files |-> Store(fs, image, net), fetch |-> TRUE]
       ELSE IF net \in Unreadable
       THEN [r |-> Fail(i, "Error open image"), files |-> Remove(Store(fs, image, net), image),
             fetch |-> TRUE]
       ELSE [r |-> Ok(i), files |-> Store(fs, image, net), fetch |-> TRUE]

\* the os.remove of line 199 dropped: the unreadable file stays
_getDS_DownloadKeepsBad(fs, i, net) ==
    LET image == Image(i)
        exists == image \in DOMAIN fs
    IN IF ~exists /\ net.kind = "unreachable"
       THEN [r |-> Fail(i, "reason"), files |-> fs, fetch |-> TRUE]
       ELSE IF ~exists /\ net.kind = "short"
       THEN [r |-> Fail(i, "reason"), files |-> Store(fs, image, net), fetch |-> TRUE]
       ELSE LET got == IF exists THEN fs ELSE Store(fs, image, net)
            IN IF got[image] \in Unreadable
               THEN [r |-> Fail(i, "Error open image"), files |-> got, fetch |-> ~exists]
               ELSE [r |-> Ok(i), files |-> got, fetch |-> ~exists]

_getDS_Download(fs, i, net) ==
    LET image == Image(i)
        exists == image \in DOMAIN fs
    IN IF ~exists /\ net.kind = "unreachable"
       THEN \* urlopen raises URLError
            [r |-> Fail(i, "reason"), files |-> fs, fetch |-> TRUE]
       ELSE IF ~exists /\ net.kind = "short"
       THEN \* urlretrieve raises ContentTooShortError (a URLError) after writing
            [r |-> Fail(i, "reason"), files |-> Store(fs, image, net), fetch |-> TRUE]
       ELSE LET got == IF exists THEN fs ELSE Store(fs, image, net)
            IN IF got[image] \in Unreadable
               THEN \* gdal.Open raises RuntimeError: os.remove( image )
                    [r |-> Fail(i, "Error open image"), files |-> Remove(got, image),
                     fetch |-> ~exists]
               ELSE [r |-> Ok(i), files |-> got, fetch |-> ~exists]

_getDS_Vsicurl(fs, i, net) ==
    IF net.kind = "raster"
    THEN [r |-> Ok(i), files |-> fs, fetch |-> FALSE]
    ELSE [r |-> Fail(i, "Error open image"), files |-> fs, fetch |-> FALSE]

\* line 156 and getDataSet
getDS(fs, i, net) ==
    IF VSICURL THEN _getDS_Vsicurl(fs, i, net) ELSE _getDS_Download(fs, i, net)


-----------------------------------------------------------------------------
(* CalculateGpm.init *)

Range(seq) == { seq[k] : k \in 1 .. Len(seq) }

Malformed(row) == ~row[2].ok \/ ~row[3].ok

\* lines 245-249
Station(row) == [id |-> row[1], lat |-> row[2].val, long |-> row[3].val]

\* setStations: the stations appended before float() raises, or all of them
RECURSIVE ParsedPrefix(_)
ParsedPrefix(rows) ==
    IF rows = <<>> \/ Malformed(Head(rows)) THEN <<>>
    ELSE <<Station(Head(rows))>> \o ParsedPrefix(Tail(rows))

\* lines 252-266: both dates parsed, then compared
CheckDates ==
    /\ pc = "start"
    /\ IF ~ini_date.ok \/ ~end_date.ok
       THEN pc' = "exit" /\ exitMsg' = "No valid date"
       ELSE IF dateIni > dateEnd
       THEN pc' = "exit" /\ exitMsg' = "ini_date > end_date"
       ELSE pc' = "isLive" /\ UNCHANGED exitMsg
    /\ UNCHANGED <<runNo, files0, stations, d, c_images, sources, errors, r, stations_total,
                   totalError, task, results, files, outFile, errFile, probes, fetched,
                   failures, resolved, dayLog, aborted, removed, prevOut>>
    /\ UNCHANGED fixed

\* lines 268-270 and isLive: one urlopen, which the network answers or not
IsLive ==
    /\ pc = "isLive"
    /\ probes' = probes + 1
    /\ \E live \in BOOLEAN :
          IF live
          THEN pc' = "stations" /\ UNCHANGED exitMsg
          ELSE pc' = "exit" /\ exitMsg' = "Host"
    /\ UNCHANGED <<runNo, files0, stations, d, c_images, sources, errors, r, stations_total,
                   totalError, task, results, files, outFile, errFile, fetched,
                   failures, resolved, dayLog, aborted, removed, prevOut>>
    /\ UNCHANGED fixed

\* lines 272-277: the file test, then setStations; float() raising ValueError
\* leaves init(), and run(), by the exception
SetStations ==
    /\ pc = "stations"
    /\ IF ~csvRows.exists
       THEN pc' = "exit" /\ exitMsg' = "Missing file" /\ UNCHANGED stations
       ELSE /\ stations' = stations \o ParsedPrefix(csvRows.rows)
            /\ IF \E k \in 1 .. Len(csvRows.rows) : Malformed(csvRows.rows[k])
               THEN pc' = "exit" /\ exitMsg' = "ValueError"
               ELSE pc' = "save" /\ UNCHANGED exitMsg
    /\ UNCHANGED <<runNo, files0, d, c_images, sources, errors, r, stations_total,
                   totalError, task, results, files, outFile, errFile, probes, fetched,
                   failures, resolved, dayLog, aborted, removed, prevOut>>
    /\ UNCHANGED fixed

-----------------------------------------------------------------------------
(* CalculateGpm.saveCsv *)

NewFile == [exists |-> TRUE, rows |-> <<>>, flushed |-> 0]
NoFile == [exists |-> FALSE, rows |-> <<>>, flushed |-> 0]

\* lines 342-355: both files created (mode 'w'), the counters zeroed
OpenFiles ==
    /\ pc = "save"
    /\ outFile' = NewFile
    /\ errFile' = NewFile
    /\ totalError' = 0
    /\ d' = 0
    /\ pc' = "day"
    /\ UNCHANGED <<runNo, files0, stations, c_images, sources, errors, r, stations_total,
                   task, results, files, exitMsg, probes, fetched, failures, resolved,
                   dayLog, aborted, removed, prevOut>>
    /\ UNCHANGED fixed

\* lines 357-362 and 297-298: the next day of the range, getDatasetSources entered
DayStart ==
    /\ pc = "day"
    /\ c_images' = 0
    /\ sources' = <<>>
    /\ errors' = <<>>
    /\ stations_total' = NoTotal
    /\ task' = <<>>
    /\ results' = <<>>
    /\ removed' = {}
    /\ pc' = "fetch"
    /\ UNCHANGED <<runNo, files0, stations, d, r, totalError, files, outFile, errFile,
                   exitMsg, probes, fetched, failures, resolved, dayLog, aborted, prevOut>>
    /\ UNCHANGED fixed

\* lines 299-305: one iteration of getDatasetSources
GetDataSet ==
    /\ pc = "fetch"
    /\ \E net \in Net :
          LET i == c_images + 1
              got == getDS(files, i, net)
          IN /\ c_images' = i
             /\ r' = got.r
             /\ files' = got.files
             /\ fetched' = IF got.fetch THEN fetched \cup {Image(i)} ELSE fetched
             /\ resolved' = Append(resolved, Image(i))
             /\ IF got.r.isOk
                THEN /\ sources' = Append(sources, got.r.dataset)
                     /\ UNCHANGED <<errors, failures>>
                ELSE /\ errors' = Append(errors, got.r.message)
                     /\ failures' = failures \cup {Image(i)}
                     /\ UNCHANGED sources
             /\ pc' = IF i = nImages THEN "map" ELSE "fetch"
    /\ UNCHANGED <<runNo, files0, stations, d, stations_total, totalError, task, results,
                   outFile, errFile, exitMsg, probes, dayLog, aborted, removed, prevOut>>
    /\ UNCHANGED fixed

\* lines 331-332: the pool and map_async: every source's task is queued
MapAsync ==
    /\ pc = "map"
    /\ task' = [p \in 1 .. Len(sources) |-> "queued"]
    /\ results' = [p \in 1 .. Len(sources) |-> NoResult]
    /\ pc' = "totals"
    /\ UNCHANGED <<runNo, files0, stations, d, c_images, sources, errors, r, stations_total,
                   totalError, files, outFile, errFile, exitMsg, probes, fetched,
                   failures, resolved, dayLog, aborted, removed, prevOut>>
    /\ UNCHANGED fixed

\* line 333
ZeroTotals == [id \in { stations[k].id : k \in 1 .. Len(stations) } |-> 0]

InitTotals ==
    /\ pc = "totals"
    /\ stations_total' = ZeroTotals
    /\ pc' = "get"
    /\ UNCHANGED <<runNo, files0, stations, d, c_images, sources, errors, r,
                   totalError, task, results, files, outFile, errFile, exitMsg, probes,
                   fetched, failures, resolved, dayLog, aborted, removed, prevOut>>
    /\ UNCHANGED fixed

-----------------------------------------------------------------------------
(* The pool's tasks: getStationsPrecipitations *)

Running == { p \in DOMAIN task : task[p] = "running" }

\* a worker of the pool takes the next task of the queue
TaskStart ==
    /\ pc \in {"totals", "get"}
    /\ Cardinality(Running) < PROCESSES
    /\ \E p \in DOMAIN task :
          /\ task[p] = "queued"
          /\ \A q \in 1 .. (p - 1) : task[q] # "queued"
          /\ task' = [task EXCEPT ![p] = "running"]
    /\ UNCHANGED <<runNo, files0, pc, stations, d, c_images, sources, errors, r, stations_total,
                   totalError, results, files, outFile, errFile, exitMsg, probes,
                   fetched, failures, resolved, dayLog, aborted, removed, prevOut>>
    /\ UNCHANGED fixed

\* lines 317-320 on an open raster of scene s: the pairs, an exception leaving the loop
RECURSIVE SampleAll(_, _)
SampleAll(sts, s) ==
    IF sts = <<>> THEN Returned(<<>>)
    ELSE LET v == getValue(s, Head(sts).long, Head(sts).lat)
             rest == SampleAll(Tail(sts), s)
         IN IF v = <<>> \/ rest.state = "raised" THEN Raised
            ELSE Returned(<<<<Head(sts).id, v[1]>>>> \o rest.pairs)

\* lines 314-323: gdal.Open( source ) reads the local file, or the URL again
getStationsPrecipitations(source, net) ==
    LET image == Image(source)
        content == IF VSICURL THEN net
                   ELSE IF image \in DOMAIN files THEN files[image] ELSE Broken("unreachable")
    IN IF content.kind = "raster" THEN SampleAll(stations, content.scene) ELSE Raised

TaskEnd ==
    /\ pc \in {"totals", "get"}
    /\ \E p \in Running, net \in Net :
          /\ results' = [results EXCEPT ![p] = getStationsPrecipitations(sources[p], net)]
          /\ task' = [task EXCEPT ![p] = "done"]
    /\ UNCHANGED <<runNo, files0, pc, stations, d, c_images, sources, errors, r, stations_total,
                   totalError, files, outFile, errFile, exitMsg, probes,
                   fetched, failures, resolved, dayLog, aborted, removed, prevOut>>
    /\ UNCHANGED fixed


-----------------------------------------------------------------------------
(* getTotalPrecipitation after map_async, and the rest of the day *)

\* get() returning with the first task that is done
SomeDone == \A p \in DOMAIN task : task[p] = "done" \/ p > 1

AllDone == \A p \in DOMAIN task : task[p] = "done"

\* = written for += in line 335
RECURSIVE AddPairsAssign(_, _)
AddPairsAssign(total, pairs) ==
    IF pairs = <<>> THEN total
    ELSE AddPairsAssign([total EXCEPT ![Head(pairs)[1]] = Head(pairs)[2]], Tail(pairs))

\* line 335 for one task's pairs
RECURSIVE AddPairs(_, _)
AddPairs(total, pairs) ==
    IF pairs = <<>> THEN total
    ELSE AddPairs([total EXCEPT ![Head(pairs)[1]] = @ + Head(pairs)[2]], Tail(pairs))

\* lines 334-335 over mapResult.get(), in the order of sources
RECURSIVE AddResults(_, _)
AddResults(total, res) ==
    IF res = <<>> THEN total
    ELSE AddResults(AddPairs(total, Head(res).pairs), Tail(res))

\* the try inside the loop: the day's rows are written and the loop goes on
AfterRaiseInLoop == "rows"

\* lines 356 and 371-373: the try encloses the loop over the days, so an
\* exception ends the loop
AfterRaise == "finish"

\* lines 334-335: mapResult.get() is ready once every task is done (MapResult._set),
\* and raises what a task raised (lines 371-372 then leave the loop)
Get ==
    /\ pc = "get"
    /\ AllDone
    /\ IF \E p \in DOMAIN results : results[p].state = "raised"
       THEN /\ pc' = AfterRaise
            /\ aborted' = {dt}
            /\ UNCHANGED <<stations_total, dayLog>>
       ELSE /\ stations_total' = AddResults(stations_total, results)
            /\ dayLog' = dayLog @@ (dt :> [ok |-> sources, vals |-> results])
            /\ pc' = "cleanup"
            /\ UNCHANGED aborted
    /\ UNCHANGED <<runNo, files0, stations, d, c_images, sources, errors, r,
                   totalError, task, results, files, outFile, errFile, exitMsg, probes,
                   fetched, failures, resolved, removed, prevOut>>
    /\ UNCHANGED fixed

\* os.remove of line 338 on one source: in streaming mode the source is the
\* "/vsicurl/..." description, no file, and os.remove raises
CanRemove(fs, src) == ~VSICURL /\ Image(src) \in DOMAIN fs

\* lines 336-340: pool.close(), the sources removed unless kept, sources.clear()
Cleanup ==
    /\ pc = "cleanup"
    /\ IF download_keep \/ sources = <<>>
       THEN /\ pc' = "errors"
            /\ sources' = <<>>
            /\ UNCHANGED <<files, removed, aborted>>
       ELSE IF \A k \in 1 .. Len(sources) : CanRemove(files, sources[k])
       THEN /\ files' = [k \in (DOMAIN files) \ { Image(src) : src \in Range(sources) }
                            |-> files[k]]
            /\ removed' = { Image(src) : src \in Range(sources) }
            /\ sources' = <<>>
            /\ pc' = "errors"
            /\ UNCHANGED aborted
       ELSE /\ pc' = AfterRaise
            /\ aborted' = {dt}
            /\ UNCHANGED <<files, removed, sources>>
    /\ UNCHANGED <<runNo, files0, stations, d, c_images, errors, r, stations_total,
                   totalError, task, results, outFile, errFile, exitMsg, probes,
                   fetched, failures, resolved, dayLog, prevOut>>
    /\ UNCHANGED fixed

\* lines 363-367
WriteErrors ==
    /\ pc = "errors"
    /\ IF errors # <<>>
       THEN /\ totalError' = totalError + Len(errors)
            /\ LET rows == errFile.rows \o
                           [k \in 1 .. Len(errors) |-> [date |-> labelDate, message |-> errors[k]]]
               IN errFile' = [errFile EXCEPT !.rows = rows, !.flushed = Len(rows)]
       ELSE UNCHANGED <<totalError, errFile>>
    /\ pc' = "rows"
    /\ UNCHANGED <<runNo, files0, stations, d, c_images, sources, errors, r, stations_total,
                   task, results, files, outFile, exitMsg, probes,
                   fetched, failures, resolved, dayLog, aborted, removed, prevOut>>
    /\ UNCHANGED fixed

RECURSIVE GCD(_, _)
GCD(a, b) == IF b = 0 THEN a ELSE GCD(b, a % b)

\* v / self.factor_mm_day of line 368, as the exact fraction in lowest terms
Divide(v, f) ==
    LET g == GCD(v, f) IN [num |-> v \div g, den |-> f \div g]

\* the keys of stations_total in insertion order: first occurrences of the ids
RECURSIVE Keys(_, _)
Keys(sts, seen) ==
    IF sts = <<>> THEN <<>>
    ELSE IF Head(sts).id \in seen THEN Keys(Tail(sts), seen)
    ELSE <<Head(sts).id>> \o Keys(Tail(sts), seen \cup {Head(sts).id})

\* the items of line 368
Items(total, label) ==
    LET ks == Keys(stations, {})
    IN [k \in 1 .. Len(ks) |->
          [id |-> ks[k], date |-> label, total_mm |-> Divide(total[ks[k]], factor_mm_day)]]

\* lines 368-370, and the loop of line 357 stepping
WriteRows ==
    /\ pc = "rows"
    /\ LET rows == outFile.rows \o Items(stations_total, labelDate)
       IN outFile' = [outFile EXCEPT !.rows = rows, !.flushed = Len(rows)]
    /\ d' = d + 1
    /\ pc' = IF d + 1 < totalDays THEN "day" ELSE "finish"
    /\ UNCHANGED <<runNo, files0, stations, c_images, sources, errors, r, stations_total,
                   totalError, task, results, files, errFile, exitMsg, probes,
                   fetched, failures, resolved, dayLog, aborted, removed, prevOut>>
    /\ UNCHANGED fixed

\* lines 373-381: both files closed, the error file removed when nothing was counted
Finish ==
    /\ pc = "finish"
    /\ outFile' = [outFile EXCEPT !.flushed = Len(outFile.rows)]
    /\ errFile' = IF totalError = 0 THEN NoFile
                  ELSE [errFile EXCEPT !.flushed = Len(errFile.rows)]
    /\ pc' = "done"
    /\ UNCHANGED <<runNo, files0, stations, d, c_images, sources, errors, r, stations_total,
                   totalError, task, results, files, exitMsg, probes,
                   fetched, failures, resolved, dayLog, aborted, removed, prevOut>>
    /\ UNCHANGED fixed

-----------------------------------------------------------------------------
(* A run of the program, and the next one over the same directory *)

Fresh ==
    /\ pc = "start"
    /\ stations = <<>>
    /\ d = 0
    /\ c_images = 0
    /\ sources = <<>>
    /\ errors = <<>>
    /\ r = NoR
    /\ stations_total = NoTotal
    /\ totalError = 0
    /\ task = <<>>
    /\ results = <<>>
    /\ exitMsg = ""
    /\ probes = 0
    /\ fetched = {}
    /\ failures = {}
    /\ resolved = <<>>
    /\ dayLog = <<>>
    /\ aborted = {}
    /\ removed = {}

\* the same command line again: the directory and the arguments are kept
Rerun ==
    /\ pc = "done"
    /\ runNo < maxRuns
    /\ runNo' = runNo + 1
    /\ files0' = files
    /\ prevOut' = outFile.rows
    /\ pc' = "start"
    /\ stations' = <<>>
    /\ d' = 0
    /\ c_images' = 0
    /\ sources' = <<>>
    /\ errors' = <<>>
    /\ r' = NoR
    /\ stations_total' = NoTotal
    /\ totalError' = 0
    /\ task' = <<>>
    /\ results' = <<>>
    /\ exitMsg' = ""
    /\ probes' = 0
    /\ fetched' = {}
    /\ failures' = {}
    /\ resolved' = <<>>
    /\ dayLog' = <<>>
    /\ aborted' = {}
    /\ removed' = {}
    /\ UNCHANGED <<files, outFile, errFile>>
    /\ UNCHANGED fixed

InputDates(days) ==
    {<<BadDate, Date(1)>>, <<Date(1), BadDate>>, <<Date(2), Date(1)>>}
        \cup { <<Date(1), Date(e)>> : e \in 1 .. days }

Init ==
    /\ GenIdle
    /\ VSICURL \in BOOLEAN
    /\ download_keep \in BOOLEAN
    /\ csvRows \in StationFiles
    /\ \E prof \in Profiles :
          /\ nImages = prof.images
          /\ maxRuns = prof.runs
          /\ nScenes = prof.scenes
          /\ \E dates \in InputDates(prof.days) :
                ini_date = dates[1] /\ end_date = dates[2]
    /\ Fresh
    /\ runNo = 1
    /\ files = <<>>
    /\ files0 = <<>>
    /\ outFile = NoFile
    /\ errFile = NoFile
    /\ prevOut = <<>>

Next ==
    \/ CheckDates
    \/ IsLive
    \/ SetStations
    \/ OpenFiles
    \/ DayStart
    \/ GetDataSet
    \/ MapAsync
    \/ InitTotals
    \/ TaskStart
    \/ TaskEnd
    \/ Get
    \/ Cleanup
    \/ WriteErrors
    \/ WriteRows
    \/ Finish
    \/ Rerun

Spec == Init /\ [][Next]_vars

\* the generator alone, the run not started
InitGen ==
    /\ gen_pc = "new"
    /\ v_datetime \in { t \in GenDates : EdgeDate(t) }
    /\ s_dt = NoDatetime
    /\ gen_i = 0
    /\ yielded = <<>>
    /\ VSICURL = FALSE
    /\ download_keep = FALSE
    /\ csvRows = MissingFile
    /\ ini_date = BadDate
    /\ end_date = BadDate
    /\ nImages = 0
    /\ maxRuns = 0
    /\ nScenes = 0
    /\ Fresh
    /\ runNo = 0
    /\ files = <<>>
    /\ files0 = <<>>
    /\ outFile = NoFile
    /\ errFile = NoFile
    /\ prevOut = <<>>

NextGen ==
    \/ GenStart
    \/ GenNext

SpecGen == InitGen /\ [][NextGen]_vars


-----------------------------------------------------------------------------
(* The calendar, stated by cases, for the properties of the generator *)

DayBefore(y, m, dd) ==
    IF dd > 1 THEN <<y, m, dd - 1>>
    ELSE IF m > 1 THEN <<y, m - 1, DaysInMonth(y, m - 1)>>
    ELSE <<y - 1, 12, 31>>

DayAfter(y, m, dd) ==
    IF dd < DaysInMonth(y, m) THEN <<y, m, dd + 1>>
    ELSE IF m < 12 THEN <<y, m + 1, 1>>
    ELSE <<y + 1, 1, 1>>

DateOfWindow(w) == <<w.year, w.month, w.day>>
StartOfWindow(w) == w.s_hour * 3600 + w.s_minute * 60 + w.s_second
EndOfWindow(w) == w.e_hour * 3600 + w.e_minute * 60 + w.e_second

\* window b starts one second after window a ends
Follows(a, b) ==
    IF EndOfWindow(a) = 86399
    THEN DateOfWindow(b) = DayAfter(a.year, a.month, a.day) /\ StartOfWindow(b) = 0
    ELSE DateOfWindow(b) = DateOfWindow(a) /\ StartOfWindow(b) = EndOfWindow(a) + 1

\* C1: for every target date D, also a first day of a month or of a year, the
\* exhausted generator has yielded exactly 48 windows; window 0 starts at 12:00:00
\* of the day before D, window 47 ends at 11:59:59 of D, every window ends 30
\* minutes less 1 second after its start, and each window starts 1 second after
\* the one before it ends.
C1_Windows ==
    gen_pc = "end" =>
        /\ Len(yielded) = 48
        /\ DateOfWindow(yielded[1]) = DayBefore(v_datetime.year, v_datetime.month, v_datetime.day)
        /\ StartOfWindow(yielded[1]) = 12 * 3600
        /\ DateOfWindow(yielded[48]) = <<v_datetime.year, v_datetime.month, v_datetime.day>>
        /\ EndOfWindow(yielded[48]) = 11 * 3600 + 59 * 60 + 59
        /\ \A k \in 1 .. 48 : EndOfWindow(yielded[k]) = StartOfWindow(yielded[k]) + 30 * 60 - 1
        /\ \A k \in 1 .. 47 : Follows(yielded[k], yielded[k + 1])

\* C1's case: the generator exhausted for a January 1st
C1_Witness ==
    /\ gen_pc = "end"
    /\ v_datetime.month = 1
    /\ v_datetime.day = 1
    /\ Len(yielded) = 48


-----------------------------------------------------------------------------
(* Properties of a run *)

\* the days whose rows were written: saveCsv's loop has stepped past them
CompletedDays == { dateIni + k : k \in 0 .. (d - 1) }

RowsOf(file, day) == { j \in 1 .. Len(file.rows) : file.rows[j].date = day }

\* what one task returned for a station
RECURSIVE ValueIn(_, _)
ValueIn(pairs, id) ==
    IF pairs = <<>> THEN 0
    ELSE (IF Head(pairs)[1] = id THEN Head(pairs)[2] ELSE 0) + ValueIn(Tail(pairs), id)

\* the values sampled for a station over a day's resolved windows
RECURSIVE SampledSum(_, _)
SampledSum(vals, id) ==
    IF vals = <<>> THEN 0
    ELSE ValueIn(Head(vals).pairs, id) + SampledSum(Tail(vals), id)

OneRowPerStation(day) ==
    /\ Cardinality(RowsOf(outFile, day)) = Len(stations)
    /\ \A k \in 1 .. Len(stations) :
          Cardinality({ j \in RowsOf(outFile, day) : outFile.rows[j].id = stations[k].id }) = 1
    /\ \A j \in RowsOf(outFile, day) : j <= outFile.flushed

\* C2: for every day whose processing completed, whatever subset of its windows
\* resolved, the primary output holds exactly one row per loaded station for that
\* day, and the row's total_mm times 20 is the sum, over the windows that
\* resolved, of the value sampled for the station (0 when none resolved).
C2_Totals ==
    \A day \in CompletedDays :
        /\ OneRowPerStation(day)
        /\ Len(dayLog[day].vals) = Len(dayLog[day].ok)
        /\ Range(dayLog[day].ok) = { i \in 1 .. nImages : <<day, i>> \notin failures }
        /\ \A j \in RowsOf(outFile, day) :
              LET row == outFile.rows[j]
              IN row.total_mm.num * 20 = row.total_mm.den * SampledSum(dayLog[day].vals, row.id)

\* C2's case: a completed day of which one window failed and another resolved,
\* with a station whose total is not 0
C2_Witness ==
    \E day \in CompletedDays :
        /\ \E i \in 1 .. nImages : <<day, i>> \in failures
        /\ dayLog[day].ok # <<>>
        /\ \E j \in RowsOf(outFile, day) : outFile.rows[j].total_mm.num > 0

\* C3: when saveCsv ends, every window whose resolution returned a failure has
\* exactly one row in the error output, which exists, dated with its target day.
C3_NoFailureDropped ==
    pc = "done" =>
        \A f \in failures :
            /\ errFile.exists
            /\ Cardinality({ j \in RowsOf(errFile, f[1]) : errFile.rows[j].message[1] = f }) = 1

\* the day and window of each resolution are after those of the one before
InOrder ==
    \A k \in 1 .. (Len(resolved) - 1) :
        \/ resolved[k][1] < resolved[k + 1][1]
        \/ resolved[k][1] = resolved[k + 1][1] /\ resolved[k][2] < resolved[k + 1][2]

\* C4: the days are processed in increasing order, and when a window of a day is
\* resolved every earlier day of the range has its rows written and flushed; once
\* a day k has raised, no window of a later day is resolved, no row of day k or of
\* a later day is written, and every day before k keeps one row per station.
C4_DaysInOrder ==
    /\ InOrder
    /\ \A k \in 1 .. Len(resolved) :
          \A day \in dateIni .. (resolved[k][1] - 1) : OneRowPerStation(day)
    /\ \A day \in aborted :
          /\ \A k \in 1 .. Len(resolved) : resolved[k][1] <= day
          /\ \A j \in 1 .. Len(outFile.rows) : outFile.rows[j].date < day
          /\ \A before \in dateIni .. (day - 1) : OneRowPerStation(before)

\* C4's case: the second day of a range raised after the first was written
C4_Witness ==
    /\ pc = "done"
    /\ aborted = {dateIni + 1}
    /\ outFile.rows # <<>>

\* C5: a run that failed on a malformed latitude or longitude had issued no
\* network operation before.
C5_ConfigErrorBeforeNetwork ==
    (pc = "exit" /\ exitMsg = "ValueError") => (probes = 0 /\ fetched = {})

\* every window of the range has a readable file in the directory fs
FullCache(fs) ==
    \A k \in 0 .. (totalDays - 1), i \in 1 .. nImages :
        /\ <<dateIni + k, i>> \in DOMAIN fs
        /\ fs[<<dateIni + k, i>>].kind = "raster"

\* C6: in download mode with the downloads kept, a second run that finds a
\* readable local file for every window of the range issues no reachability check
\* and no retrieve, and ends with the rows the first run wrote.
C6_Rerun ==
    (runNo = 2 /\ ~VSICURL /\ download_keep /\ pc \notin {"start", "exit"} /\ FullCache(files0)) =>
        /\ fetched = {}
        /\ failures = {}
        /\ pc = "done" => outFile.rows = prevOut

\* C6's case: such a second run ended, with rows
C6_Witness ==
    /\ runNo = 2
    /\ ~VSICURL
    /\ download_keep
    /\ FullCache(files0)
    /\ pc = "done"
    /\ outFile.rows # <<>>

\* C7: in download mode, a resolution that failed because the local file could
\* not be opened returned a message and no handle, and the directory holds no
\* file of that image afterwards.
C7_UnreadableRemoved ==
    (~VSICURL /\ ~r.isOk /\ r.message[2] = "Error open image") =>
        /\ DOMAIN r = {"isOk", "message"}
        /\ r.message[1] \notin DOMAIN files

\* C7's case: the unreadable file was already in the directory (left by the
\* first run), not downloaded by this resolution
C7_Witness ==
    /\ ~VSICURL
    /\ ~r.isOk
    /\ r.message[2] = "Error open image"
    /\ r.message[1] \in DOMAIN files0
    /\ r.message[1] \notin fetched

\* C8: no task runs before all the day's windows are resolved; at most 4 tasks
\* run at once; stations_total, once created, changes only in the control
\* thread's get, with every task of the day finished; and the totals are the sums
\* of what the tasks returned, whatever the order they ran and ended in.
C8_Pool ==
    /\ [] /\ (\E p \in DOMAIN task : task[p] \in {"running", "done"}) => c_images = nImages
          /\ pc = "fetch" => task = <<>>
          /\ Cardinality({ p \in DOMAIN task : task[p] = "running" }) <= 4
          /\ pc = "cleanup" =>
                /\ \A k \in 1 .. Len(stations) :
                      stations_total[stations[k].id] = SampledSum(results, stations[k].id)
                /\ ~VSICURL =>
                      \A p \in DOMAIN results :
                          results[p] = SampleAll(stations, files[<<dt, sources[p]>>].scene)
    /\ [][ (stations_total # NoTotal /\ stations_total' # NoTotal
                /\ stations_total' # stations_total)
           => (pc = "get" /\ \A p \in DOMAIN task : task[p] = "done") ]_vars

\* C8's case: 4 tasks running and a fifth waiting in the queue
C8_Witness ==
    /\ Cardinality({ p \in DOMAIN task : task[p] = "running" }) = 4
    /\ \E p \in DOMAIN task : task[p] = "queued"

\* C9: in download mode, with the downloads not kept, no local file of a window
\* of a completed day remains; with the downloads kept, the file of every window
\* that resolved remains.
C9_NoFileRemains ==
    ~VSICURL =>
        \A day \in CompletedDays :
            IF download_keep
            THEN \A i \in Range(dayLog[day].ok) : <<day, i>> \in DOMAIN files
            ELSE \A i \in 1 .. nImages : <<day, i>> \notin DOMAIN files

\* C10: in streaming mode, a run in which every window resolved and no task
\* raised is not stopped by an exception, and ends with one row per station for
\* every day of the range.
C10_StreamingCompletes ==
    (VSICURL /\ pc = "done" /\ failures = {}
        /\ \A p \in DOMAIN results : results[p].state # "raised") =>
        /\ aborted = {}
        /\ \A k \in 0 .. (totalDays - 1) : OneRowPerStation(dateIni + k)

=============================================================================
